---- MODULE Spec2Model ----
(***************************************************************************)
(* Metadata resolution of the asset catalog (generate-assets).             *)
(*                                                                         *)
(* Encodings used throughout:                                              *)
(*   Option<T>      None is <<>>, Some(x) is <<x>>                         *)
(*   Result<T, E>   Ok(x) is <<"Ok", x>>, Err(e) is <<"Err", e>>; a panic  *)
(*                  (index out of bounds, unwrap of None) is               *)
(*                  <<"Panic", message>>: it is no value the caller can    *)
(*                  match on                                               *)
(*   String         licenses, package names and dependency names are       *)
(*                  sequences of one-character strings, because the code   *)
(*                  splits, trims, replaces and compares them character by *)
(*                  character; strings that are only copied (versions,     *)
(*                  error messages, hosts) are TLA+ strings                *)
(***************************************************************************)
EXTENDS Integers, Sequences, FiniteSets, TLC

VARIABLES
    crates_io_client,   \* Option<&CratesioClient> handed to parse_assets
    github_client,      \* Option<&GithubClient>
    gitlab_client,      \* Option<&GitlabClient>
    content,            \* section.content: the assets pushed so far
    walk,               \* control state of visit_dirs
    call                \* the last operation applied: its name, inputs and outcome

vars == <<crates_io_client, github_client, gitlab_client, content, walk, call>>

\* ---------------------------------------------------------------- bounds

MaxLicenseLen == 6
MaxNameLen == 3
MaxDeps == 2
MaxSegments == 3
MaxAssets == 2

\* ------------------------------------------------------------- encodings

None == <<>>
Some(x) == <<x>>
IsSome(o) == o # <<>>
Unwrap(o) == o[1]

Ok(x) == <<"Ok", x>>
Err(e) == <<"Err", e>>
Panic(m) == <<"Panic", m>>
IsOk(r) == r[1] = "Ok"
IsErr(r) == r[1] = "Err"
IsPanic(r) == r[1] = "Panic"

\* A call of a pure function: Init draws its inputs, the action applies it.
Pending(op, before, arg) == [op |-> op, done |-> FALSE, before |-> before, arg |-> arg]
Returned(c, after) ==
    [op |-> c.op, done |-> TRUE, before |-> c.before, arg |-> c.arg, after |-> after]
Did(op) == call.op = op /\ call.done

NoWalk ==
    /\ crates_io_client = None
    /\ github_client = None
    /\ gitlab_client = None
    /\ content = <<>>
    /\ walk = "idle"

Frame == UNCHANGED <<crates_io_client, github_client, gitlab_client, content, walk>>

\* All sequences over S of length lo..hi.
SeqsOf(S, lo, hi) == UNION {[1..n -> S] : n \in lo..hi}

\* --------------------------------------------------------------- strings

\* char::is_whitespace, on the characters the model uses.
White == {" ", "\t", "\n"}

\* The literal separator of set_license.
OR_SEP == <<" ", "O", "R", " ">>

\* Whether pat occurs in s at index i (1-based).
OccursAt(s, pat, i) ==
    /\ i >= 1
    /\ i + Len(pat) - 1 <= Len(s)
    /\ SubSeq(s, i, i + Len(pat) - 1) = pat

\* str::find: the index of the leftmost occurrence of pat in s, 0 when none.
Find(s, pat) ==
    LET hits == {i \in 1..Len(s) : OccursAt(s, pat, i)}
    IN  IF hits = {} THEN 0 ELSE CHOOSE i \in hits : \A j \in hits : i <= j

\* str::split(pat): the pieces between the leftmost non-overlapping
\* occurrences of pat, in order; a string without pat is its only piece.
RECURSIVE Split(_, _)
Split(s, pat) ==
    LET i == Find(s, pat)
    IN  IF i = 0
        THEN <<s>>
        ELSE <<SubSeq(s, 1, i - 1)>> \o Split(SubSeq(s, i + Len(pat), Len(s)), pat)

RECURSIVE TrimStart(_)
TrimStart(s) ==
    IF s # <<>> /\ Head(s) \in White THEN TrimStart(Tail(s)) ELSE s

RECURSIVE TrimEnd(_)
TrimEnd(s) ==
    IF s # <<>> /\ s[Len(s)] \in White THEN TrimEnd(SubSeq(s, 1, Len(s) - 1)) ELSE s

\* str::trim
Trim(s) == TrimEnd(TrimStart(s))

\* str::starts_with
StartsWith(s, pat) == OccursAt(s, pat, 1)

\* str::replace(from, to) for single characters.
Replace(s, from, to) == [i \in 1..Len(s) |-> IF s[i] = from THEN to ELSE s[i]]

MIT == <<"M", "I", "T">>
APACHE == <<"A", "p", "a", "c", "h", "e", "-", "2", ".", "0">>
ZLIB == <<"Z", "l", "i", "b">>
MIT_OR_APACHE == MIT \o OR_SEP \o APACHE
NON_STANDARD == <<"n", "o", "n", "-", "s", "t", "a", "n", "d", "a", "r", "d">>

\* ------------------------------------------------------- Asset (lib.rs)

\* An asset as far as resolution reads and writes it.
Asset(link, licenses, bevy_versions) ==
    [link |-> link, licenses |-> licenses, bevy_versions |-> bevy_versions]

\* Asset::set_license, with the " OR " pieces left untrimmed.
set_license_no_trim(asset, license) ==
    IF IsSome(asset.licenses) THEN asset
    ELSE IF IsSome(license)
         THEN [asset EXCEPT !.licenses = Some(Split(Unwrap(license), OR_SEP))]
         ELSE asset

\* Asset::set_license, overwriting a declared value.
set_license_overwrite(asset, license) ==
    IF IsSome(license)
    THEN [asset EXCEPT !.licenses =
            Some([i \in 1..Len(Split(Unwrap(license), OR_SEP)) |->
                    Trim(Split(Unwrap(license), OR_SEP)[i])])]
    ELSE asset

\* Asset::set_license
set_license(asset, license) ==
    IF IsSome(asset.licenses) THEN asset
    ELSE IF IsSome(license)
         THEN LET parts == Split(Unwrap(license), OR_SEP)
              IN  [asset EXCEPT !.licenses =
                      Some([i \in 1..Len(parts) |-> Trim(parts[i])])]
         ELSE asset

\* Asset::set_bevy_version
set_bevy_version(asset, version) ==
    IF IsSome(asset.bevy_versions) THEN asset
    ELSE IF IsSome(version)
         THEN [asset EXCEPT !.bevy_versions = Some(<<Unwrap(version)>>)]
         ELSE asset

\* clients::Metadata
Metadata(license, bevy_version) == [license |-> license, bevy_version |-> bevy_version]

\* The merge of get_extra_metadata, made only when no field was declared.
MergeMetadata_only_undeclared(asset, metadata) ==
    IF IsSome(metadata) /\ asset.licenses = None /\ asset.bevy_versions = None
    THEN set_bevy_version(set_license(asset, Unwrap(metadata).license),
                          Unwrap(metadata).bevy_version)
    ELSE asset

\* get_extra_metadata, its last step: the resolved metadata, if there is
\* any, goes through set_license and then set_bevy_version.
MergeMetadata(asset, metadata) ==
    IF IsSome(metadata)
    THEN set_bevy_version(set_license(asset, Unwrap(metadata).license),
                          Unwrap(metadata).bevy_version)
    ELSE asset

\* ------------------------------------------------ merge, as pure functions

LicenseAlphabet == {"M", " ", "O", "R"}

\* The license strings a backend may resolve.
LicenseStrings ==
    SeqsOf(LicenseAlphabet, 0, MaxLicenseLen)
        \cup {MIT, APACHE, MIT_OR_APACHE, MIT_OR_APACHE \o OR_SEP \o ZLIB,
              <<" ">> \o MIT \o <<" ">> \o OR_SEP \o <<"\t">> \o ZLIB,
              MIT \o <<"\t", "O", "R", "\t">> \o ZLIB,
              OR_SEP \o <<"O", "R", " ">>, NON_STANDARD}

VersionStrings == {"0.14", "0.13", "main", "git"}

DeclaredLicenses == {None, Some(<<>>), Some(<<MIT>>), Some(<<MIT, APACHE>>)}
DeclaredVersions == {None, Some(<<>>), Some(<<"0.12">>), Some(<<"0.12", "0.13">>)}

NoLink == "https://example.org/asset"

DeclaredAssets ==
    {Asset(NoLink, l, v) : l \in DeclaredLicenses, v \in DeclaredVersions}

SetLicense ==
    /\ call.op = "set_license" /\ ~call.done
    /\ call' = Returned(call, set_license(call.before, call.arg))
    /\ Frame

SetBevyVersion ==
    /\ call.op = "set_bevy_version" /\ ~call.done
    /\ call' = Returned(call, set_bevy_version(call.before, call.arg))
    /\ Frame

\* What a backend may resolve for one asset: nothing, or a Metadata either
\* of whose fields may be absent.
ResolvedMetadata ==
    {None} \cup
    {Some(Metadata(l, v)) :
        l \in {None, Some(MIT), Some(MIT_OR_APACHE), Some(ZLIB)},
        v \in {None, Some("0.14"), Some("0.13")}}

\* The merge of get_extra_metadata, applied to an asset and then applied
\* again to what it left.
MergeTwice ==
    /\ call.op = "merge" /\ ~call.done
    /\ call' = Returned(call,
                  [once  |-> MergeMetadata(call.before, call.arg.first),
                   twice |-> MergeMetadata(MergeMetadata(call.before, call.arg.first),
                                           call.arg.second)])
    /\ Frame

InitMerge ==
    /\ NoWalk
    /\ call \in
         {Pending("set_license", a, l) :
             a \in DeclaredAssets, l \in {None} \cup {Some(s) : s \in LicenseStrings}}
         \cup
         {Pending("set_bevy_version", a, v) :
             a \in DeclaredAssets, v \in {None} \cup {Some(s) : s \in VersionStrings}}
         \cup
         {Pending("merge", a, [first |-> m1, second |-> m2]) :
             a \in DeclaredAssets, m1 \in ResolvedMetadata, m2 \in ResolvedMetadata}

NextMerge == SetLicense \/ SetBevyVersion \/ MergeTwice

SpecMerge == InitMerge /\ [][NextMerge]_vars

\* ------------------------------------- the manifest (clients/git/mod.rs)

\* The characters of package and dependency names, in ascending byte order.
Ascii == <<"-", "_", "a", "b", "c", "d", "e", "f", "h", "n", "o", "r", "s", "v", "w", "y">>
Byte(c) == CHOOSE i \in 1..Len(Ascii) : Ascii[i] = c

\* Ord for String: byte-wise lexicographic order.
StrLess(a, b) ==
    LET n    == IF Len(a) < Len(b) THEN Len(a) ELSE Len(b)
        diff == {i \in 1..n : a[i] # b[i]}
    IN  IF diff = {} THEN Len(a) < Len(b)
        ELSE LET i == CHOOSE i \in diff : \A j \in diff : i <= j
             IN  Byte(a[i]) < Byte(b[i])

BEVY == <<"b", "e", "v", "y">>
BEVY_ECS == BEVY \o <<"_", "e", "c", "s">>
BEVY_DASH == BEVY \o <<"-", "h", "a", "n", "a", "b", "i">>
BEV == <<"b", "e", "v">>
SERDE == <<"s", "e", "r", "d", "e">>

\* cargo_toml::Dependency
Simple(version) == [kind |-> "Simple", version |-> version]
Detailed(version, git, branch) ==
    [kind |-> "Detailed", version |-> version, git |-> git, branch |-> branch]

Dependencies ==
    {Simple(v) : v \in {"0.14", "0.13"}}
        \cup {Detailed(v, g, b) :
                v \in {None, Some("0.14"), Some("0.13")},
                g \in {None, Some("https://github.com/bevyengine/bevy")},
                b \in {None, Some("main"), Some("master"), Some("MAIN")}}

\* cargo_toml::Package, its license and license_file.
Packages ==
    {None} \cup {Some([license |-> l, license_file |-> f]) :
                    l \in {None, Some(MIT), Some(MIT_OR_APACHE)},
                    f \in {None, Some("LICENSE.txt")}}

\* The text of a Cargo.toml that parses: the package section and the
\* [dependencies] table as written, an ordered list of <<name, dependency>>
\* with no name twice (a repeated key does not parse).
DocNames == {BEVY, BEVY_ECS, BEVY_DASH, BEV, SERDE}
DocDeps ==
    {Simple("0.14"),
     Detailed(Some("0.13"), Some("https://github.com/bevyengine/bevy"), None),
     Detailed(None, Some("https://github.com/bevyengine/bevy"), Some("main")),
     Detailed(None, None, None)}
DepTables ==
    {t \in SeqsOf(DocNames \X DocDeps, 0, MaxDeps) :
        \A i, j \in 1..Len(t) : i # j => t[i][1] # t[j][1]}
Documents ==
    {[kind |-> "manifest", package |-> p, dependencies |-> t] :
        p \in Packages, t \in DepTables}
Malformed == [kind |-> "malformed"]

\* toml::from_str::<cargo_toml::Manifest>. Manifest::dependencies is a
\* cargo_toml::DepsSet, a BTreeMap<String, Dependency>: a map from name to
\* dependency that does not keep the order of the file.
ParseManifest(text) ==
    IF text.kind = "malformed" THEN Err("toml")
    ELSE LET t == text.dependencies
         IN  Ok([package |-> text.package,
                 dependencies |->
                    [name \in {t[i][1] : i \in 1..Len(t)} |->
                        (CHOOSE e \in {t[i] : i \in 1..Len(t)} : e[1] = name)[2]]])

\* BTreeMap::keys: the keys in ascending order.
RECURSIVE Ascending(_)
Ascending(S) ==
    IF S = {} THEN <<>>
    ELSE LET least == CHOOSE x \in S : \A y \in S \ {x} : StrLess(x, y)
         IN  <<least>> \o Ascending(S \ {least})
Keys(map) == Ascending(DOMAIN map)

\* get_license, reading license_file first.
get_license_file_first(cargo_manifest) ==
    IF IsSome(cargo_manifest.package)
    THEN LET package == Unwrap(cargo_manifest.package)
         IN  IF IsSome(package.license_file) THEN Some(NON_STANDARD)
             ELSE package.license
    ELSE None

\* get_license
get_license(cargo_manifest) ==
    IF IsSome(cargo_manifest.package)
    THEN LET package == Unwrap(cargo_manifest.package)
         IN  IF IsSome(package.license) THEN Some(Unwrap(package.license))
             ELSE IF IsSome(package.license_file) THEN Some(NON_STANDARD)
             ELSE None
    ELSE None

\* get_bevy_dependency_version, with the git source read before the version.
get_bevy_dependency_version_git_first(dep) ==
    IF dep.kind = "Simple" THEN Some(dep.version)
    ELSE IF IsSome(dep.git)
         THEN IF dep.branch = Some("main") THEN Some("main") ELSE Some("git")
         ELSE dep.version

\* get_bevy_dependency_version
get_bevy_dependency_version(dep) ==
    IF dep.kind = "Simple" THEN Some(dep.version)
    ELSE IF IsSome(dep.version) THEN Some(Unwrap(dep.version))
         ELSE IF IsSome(dep.git)
              THEN IF dep.branch = Some("main") THEN Some("main") ELSE Some("git")
              ELSE None

\* Iterator::find over the keys: Some(first key that starts with "bevy" and
\* is in `among`), or None.
FindBevyKey(keys, among) ==
    LET hits == {i \in 1..Len(keys) : StartsWith(keys[i], BEVY) /\ keys[i] \in among}
    IN  IF hits = {} THEN None
        ELSE Some(keys[CHOOSE i \in hits : \A j \in hits : i <= j])

\* get_bevy_version, taking the first bevy dependency that has a version.
get_bevy_version_find_map(cargo_manifest) ==
    LET deps == cargo_manifest.dependencies
        key  == FindBevyKey(Keys(deps),
                    {k \in DOMAIN deps : IsSome(get_bevy_dependency_version(deps[k]))})
    IN  IF IsSome(key) THEN get_bevy_dependency_version(deps[Unwrap(key)]) ELSE None

\* get_bevy_version
get_bevy_version(cargo_manifest) ==
    LET deps == cargo_manifest.dependencies
        key  == FindBevyKey(Keys(deps), DOMAIN deps)
    IN  IF IsSome(key)
        THEN IF Unwrap(key) \in DOMAIN deps
             THEN get_bevy_dependency_version(deps[Unwrap(key)])
             ELSE None
        ELSE None

\* ------------------------- repository handles (github.rs, gitlab.rs)

GithubRepoClient(username, repository_name) ==
    [kind |-> "github", username |-> username, repository_name |-> repository_name]
GitlabRepoClient(id, default_branch) ==
    [kind |-> "gitlab", id |-> id, default_branch |-> default_branch]

RepoClients == {GithubRepoClient("owner", "repo"), GitlabRepoClient(7, "main")}

\* What the remote API answers: to the request for a file's content, and to
\* the request for the repository's license.
FileContents ==
    {[kind |-> "bad_base64"], [kind |-> "bad_utf8"]}
        \cup {[kind |-> "text", text |-> t] : t \in {Malformed} \cup Documents}
FileReplies ==
    {[kind |-> "http_error"], [kind |-> "bad_json"],
     [kind |-> "json", encoding |-> "none", content |-> [kind |-> "text", text |-> Malformed]]}
        \cup {[kind |-> "json", encoding |-> "base64", content |-> c] : c \in FileContents}
LicenseReplies ==
    {[kind |-> "http_error"], [kind |-> "json", spdx_id |-> MIT]}
Remotes == [cargo_toml : FileReplies, license : LicenseReplies]

NotFound == [kind |-> "http_error"]

\* GithubRepoClient::try_get_file_content and GitlabRepoClient::try_get_file_content:
\* the same steps against the two APIs.
try_get_file_content(self, file_path, remote) ==
    LET response == IF file_path = "Cargo.toml" THEN remote.cargo_toml ELSE NotFound
    IN  IF response.kind = "http_error" THEN Err("transport")
        ELSE IF response.kind = "bad_json" THEN Err("json")
        ELSE IF response.encoding = "base64"
             THEN IF response.content.kind = "bad_base64" THEN Err("base64")
                  ELSE IF response.content.kind = "bad_utf8" THEN Err("utf8")
                  ELSE Ok(response.content.text)
             ELSE Err("Content is not in base64")

\* GithubRepoClient::try_get_license and GitlabRepoClient::try_get_license
try_get_license(self, remote) ==
    IF self.kind = "gitlab" THEN Err("License fetching is not supported by GitLab.")
    ELSE IF remote.license.kind = "http_error" THEN Err("transport")
         ELSE Ok(remote.license.spdx_id)

FileCall(file_path) == [method |-> "try_get_file_content", file_path |-> file_path]
LicenseCall == [method |-> "try_get_license", file_path |-> ""]

\* try_get_metadata, asking the license endpoint when the manifest has none.
try_get_metadata_license_endpoint(self, remote) ==
    LET cargo_toml_content == try_get_file_content(self, "Cargo.toml", remote)
        parsed  == ParseManifest(cargo_toml_content[2])
        api     == try_get_license(self, remote)
    IN  IF ~IsOk(cargo_toml_content)
        THEN [ret |-> Err("Failed to get Cargo.toml"), calls |-> <<FileCall("Cargo.toml")>>]
        ELSE IF ~IsOk(parsed)
        THEN [ret |-> Err("toml"), calls |-> <<FileCall("Cargo.toml")>>]
        ELSE IF IsSome(get_license(parsed[2]))
        THEN [ret |-> Ok(Metadata(get_license(parsed[2]), get_bevy_version(parsed[2]))),
              calls |-> <<FileCall("Cargo.toml")>>]
        ELSE IF ~IsOk(api)
        THEN [ret |-> api, calls |-> <<FileCall("Cargo.toml"), LicenseCall>>]
        ELSE [ret |-> Ok(Metadata(Some(api[2]), get_bevy_version(parsed[2]))),
              calls |-> <<FileCall("Cargo.toml"), LicenseCall>>]

\* MetadataAssetClient::try_get_metadata for a GitRepositoryClient: the
\* result, and the calls it made on the handle.
try_get_metadata(self, remote) ==
    LET cargo_toml_content == try_get_file_content(self, "Cargo.toml", remote)
        parsed  == ParseManifest(cargo_toml_content[2])
    IN  IF ~IsOk(cargo_toml_content)
        THEN [ret |-> Err("Failed to get Cargo.toml"), calls |-> <<FileCall("Cargo.toml")>>]
        ELSE IF ~IsOk(parsed)
        THEN [ret |-> Err("toml"), calls |-> <<FileCall("Cargo.toml")>>]
        ELSE [ret |-> Ok(Metadata(get_license(parsed[2]), get_bevy_version(parsed[2]))),
              calls |-> <<FileCall("Cargo.toml")>>]

\* --------------------------------------- the manifest, as pure functions

GetLicense ==
    /\ call.op = "get_license" /\ ~call.done
    /\ call' = Returned(call, get_license(call.arg))
    /\ Frame

GetBevyDependencyVersion ==
    /\ call.op = "get_bevy_dependency_version" /\ ~call.done
    /\ call' = Returned(call, get_bevy_dependency_version(call.arg))
    /\ Frame

\* get_bevy_version of the manifest that the text call.arg parses to.
GetBevyVersion ==
    /\ call.op = "get_bevy_version" /\ ~call.done
    /\ call' = Returned(call, get_bevy_version(ParseManifest(call.arg)[2]))
    /\ Frame

TryGetMetadata ==
    /\ call.op = "try_get_metadata" /\ ~call.done
    /\ call' = Returned(call, try_get_metadata(call.before, call.arg))
    /\ Frame

TryGetLicense ==
    /\ call.op = "try_get_license" /\ ~call.done
    /\ call' = Returned(call, try_get_license(call.before, call.arg))
    /\ Frame

InitManifest ==
    /\ NoWalk
    /\ call \in
         {Pending("get_license", None, ParseManifest(d)[2]) :
             d \in {x \in Documents : Len(x.dependencies) <= 1}}
         \cup {Pending("get_bevy_dependency_version", None, d) : d \in Dependencies}
         \cup {Pending("get_bevy_version", None, d) :
                 d \in {x \in Documents : x.package = None}}
         \cup {Pending("try_get_metadata", h, r) : h \in RepoClients, r \in Remotes}
         \cup {Pending("try_get_license", h, r) :
                 h \in RepoClients, r \in {x \in Remotes : x.cargo_toml = NotFound}}

NextManifest ==
    \/ GetLicense
    \/ GetBevyDependencyVersion
    \/ GetBevyVersion
    \/ TryGetMetadata
    \/ TryGetLicense

SpecManifest == InitManifest /\ [][NextManifest]_vars

\* ------------------------------------------- the registry (crates_io.rs)

FOO_BAR == <<"f", "o", "o", "_", "b", "a", "r">>
FOO_DASH_BAR == <<"f", "o", "o", "-", "b", "a", "r">>

CrateNames == SeqsOf({"a", "_", "-"}, 1, MaxNameLen) \cup {FOO_BAR, FOO_DASH_BAR}

\* A row of cratesio_dbdump_lookup::get_rev_dependency: the crate's license
\* and its dependencies on bevy, (version, kind) pairs or an error.
Row(license, deps) == [license |-> license, deps |-> deps]

\* What get_rev_dependency(db, name, "bevy") answers for one name: an error
\* of the query, or the rows found, each read or not.
LookupResults ==
    {Err("sqlite"),
     Ok(<<>>),
     Ok(<<Err("row")>>),
     Ok(<<Ok(Row(MIT_OR_APACHE, Ok(<<  <<"0.14", "normal">>, <<"0.13", "dev">>  >>)))>>),
     Ok(<<Ok(Row(MIT, Err("deps")))>>),
     Ok(<<Ok(Row(ZLIB, Ok(<<>>))), Ok(Row(MIT, Ok(<<  <<"0.12", "normal">>  >>)))>>),
     Ok(<<Err("row"), Ok(Row(MIT, Ok(<<  <<"0.12", "normal">>  >>)))>>)}

\* cratesio_dbdump_lookup::get_rev_dependency(db, crate_name, "bevy"); db maps
\* the names it holds rows or errors for to them, any other name has no row.
get_rev_dependency(db, crate_name) ==
    IF crate_name \in DOMAIN db THEN db[crate_name] ELSE Ok(<<>>)

\* get_metadata_from_db_by_crate_name
get_metadata_from_db_by_crate_name(db, crate_name) ==
    LET found == get_rev_dependency(db, crate_name)
    IN  IF ~IsOk(found) THEN found
        ELSE IF found[2] # <<>> /\ IsOk(found[2][1])
             THEN LET row  == found[2][1][2]
                      deps == row.deps
                  IN  Ok(Metadata(Some(row.license),
                                  IF IsOk(deps) /\ deps[2] # <<>>
                                  THEN Some(deps[2][1][1])
                                  ELSE None))
             ELSE Err("Not found in crates.io db")

\* get_metadata_from_crates_io_db, retrying with hyphens turned into
\* underscores.
get_metadata_from_crates_io_db_reversed(db, crate_name) ==
    LET literal == get_metadata_from_db_by_crate_name(db, crate_name)
        other   == Replace(crate_name, "-", "_")
        retried == get_metadata_from_db_by_crate_name(db, other)
    IN  IF IsOk(literal) THEN [ret |-> literal, lookups |-> <<crate_name>>]
        ELSE IF IsOk(retried)
             THEN [ret |-> retried, lookups |-> <<crate_name, other>>]
             ELSE [ret |-> Err("Failed to get data from crates.io db"),
                   lookups |-> <<crate_name, other>>]

\* get_metadata_from_crates_io_db: the result, and the names looked up.
get_metadata_from_crates_io_db(db, crate_name) ==
    LET literal    == get_metadata_from_db_by_crate_name(db, crate_name)
        hyphenated == Replace(crate_name, "_", "-")
        retried    == get_metadata_from_db_by_crate_name(db, hyphenated)
    IN  IF IsOk(literal) THEN [ret |-> literal, lookups |-> <<crate_name>>]
        ELSE IF IsOk(retried)
             THEN [ret |-> retried, lookups |-> <<crate_name, hyphenated>>]
             ELSE [ret |-> Err("Failed to get data from crates.io db"),
                   lookups |-> <<crate_name, hyphenated>>]

\* The dumps that differ on the names a lookup of crate_name can touch.
DbsFor(crate_name) ==
    [{crate_name, Replace(crate_name, "_", "-")} -> LookupResults]

GetMetadataFromCratesIoDb ==
    /\ call.op = "get_metadata_from_crates_io_db" /\ ~call.done
    /\ call' = Returned(call, get_metadata_from_crates_io_db(call.before, call.arg))
    /\ Frame

InitRegistry ==
    /\ NoWalk
    /\ call \in {Pending("get_metadata_from_crates_io_db", db, name) :
                    <<db, name>> \in UNION {DbsFor(n) \X {n} : n \in CrateNames}}

NextRegistry == GetMetadataFromCratesIoDb

SpecRegistry == InitRegistry /\ [][NextRegistry]_vars

\* --------------------- handle construction (crates_io.rs, github.rs, gitlab.rs)

CRATES == <<"c", "r", "a", "t", "e", "s">>

\* A parsed url::Url, as far as the code reads it: host_str() and
\* path_segments(). path_segments() is None for a URL whose path does not
\* start with "/" ("foo://crates.io"), and otherwise holds at least one
\* segment, possibly empty ("https://github.com" has the one segment "").
Url(host, path_segments) == [host |-> host, path_segments |-> path_segments]

Hosts == {"crates.io", "github.com", "gitlab.com", "example.com"}
Segments == {CRATES, FOO_BAR, <<>>}
Urls ==
    {Url(h, p) :
        h \in {None} \cup {Some(x) : x \in Hosts},
        p \in {None} \cup {Some(q) : q \in SeqsOf(Segments, 1, MaxSegments)}}

CratesioCrateClient(client, crate_name) ==
    [kind |-> "crates.io", client |-> client, crate_name |-> crate_name]

\* url.path_segments().map(|c| c.collect::<Vec<_>>()).unwrap() followed by
\* segments[index] (0-based): the segment, or the panic of unwrap or of the
\* index out of bounds.
SegmentAt(url, index) ==
    IF url.path_segments = None
    THEN Panic("unwrap on None")
    ELSE IF index + 1 > Len(Unwrap(url.path_segments))
         THEN Panic("index out of bounds")
         ELSE Ok(Unwrap(url.path_segments)[index + 1])

\* The host check, refusing only a URL without a host.
HostCheck_any_host(url, host, message) ==
    IF IsSome(url.host) THEN Ok(host) ELSE Err("No host in URL")

\* The host check the three clients share.
HostCheck(url, host, message) ==
    IF IsSome(url.host)
    THEN IF Unwrap(url.host) # host THEN Err(message) ELSE Ok(host)
    ELSE Err("No host in URL")

\* CratesioClient::try_get_repository_client
CratesioClient_try_get_repository_client(self, url) ==
    LET host       == HostCheck(url, "crates.io", "Not a crates.io link")
        crate_name == SegmentAt(url, 1)
    IN  IF ~IsOk(host) THEN host
        ELSE IF ~IsOk(crate_name) THEN crate_name
        ELSE Ok(CratesioCrateClient(self, crate_name[2]))

\* GithubClient::try_get_repository_client
GithubClient_try_get_repository_client(self, url) ==
    LET host            == HostCheck(url, "github.com", "Not a GitHub repository")
        username        == SegmentAt(url, 0)
        repository_name == SegmentAt(url, 1)
    IN  IF ~IsOk(host) THEN host
        ELSE IF ~IsOk(username) THEN username
        ELSE IF ~IsOk(repository_name) THEN repository_name
        ELSE Ok(GithubRepoClient(username[2], repository_name[2]))

\* What the GitLab project search answers.
SearchReplies ==
    {[kind |-> "http_error"],
     [kind |-> "json", projects |-> <<>>],
     [kind |-> "json", projects |-> <<[id |-> 7, default_branch |-> "main"]>>],
     [kind |-> "json", projects |-> <<[id |-> 9, default_branch |-> "trunk"],
                                       [id |-> 7, default_branch |-> "main"]>>]}

\* GitlabClient::search_project_by_name
search_project_by_name(self, repository_name, search) ==
    IF search.kind = "http_error" THEN Err("transport") ELSE Ok(search.projects)

\* GitlabClient::try_get_repository_client; search is what the remote
\* answers to the project search.
GitlabClient_try_get_repository_client(self, url, search) ==
    LET host            == HostCheck(url, "gitlab.com", "Not a GitLab repository")
        repository_name == SegmentAt(url, 1)
        search_result   == search_project_by_name(self, repository_name[2], search)
    IN  IF ~IsOk(host) THEN host
        ELSE IF ~IsOk(repository_name) THEN repository_name
        ELSE IF ~IsOk(search_result) THEN search_result
        ELSE IF search_result[2] = <<>> THEN Err("Failed to find gitlab repo")
        ELSE Ok(GitlabRepoClient(search_result[2][1].id,
                                 search_result[2][1].default_branch))

\* The clients parse_assets can be handed.
TheCratesioClient ==
    [db |-> [n \in {FOO_DASH_BAR} |->
                Ok(<<Ok(Row(MIT_OR_APACHE, Ok(<<  <<"0.14", "normal">>  >>)))>>)]]
TheGithubClient == [token |-> "github-token"]
TheGitlabClient == [token |-> "gitlab-token"]

CratesioTryGetRepositoryClient ==
    /\ call.op = "CratesioClient::try_get_repository_client" /\ ~call.done
    /\ call' = Returned(call, CratesioClient_try_get_repository_client(call.before, call.arg))
    /\ Frame

GithubTryGetRepositoryClient ==
    /\ call.op = "GithubClient::try_get_repository_client" /\ ~call.done
    /\ call' = Returned(call, GithubClient_try_get_repository_client(call.before, call.arg))
    /\ Frame

GitlabTryGetRepositoryClient ==
    /\ call.op = "GitlabClient::try_get_repository_client" /\ ~call.done
    /\ call' = Returned(call, GitlabClient_try_get_repository_client(
                                 call.before, call.arg.url, call.arg.search))
    /\ Frame

\* A Cargo.toml with bevy = "0.14" and no license, as the remote serves it.
Bevy014NoLicense ==
    [kind |-> "json", encoding |-> "base64",
     content |-> [kind |-> "text",
                  text |-> [kind |-> "manifest", package |-> None,
                            dependencies |-> <<  <<BEVY, Simple("0.14")>>  >>]]]

\* ------------------------------------------------ the walk (lib.rs)

\* A link that url::Url::parse rejects.
BadLink == [kind |-> "invalid"]

\* url::Url::parse(&asset.link): a link is its parsed form, or BadLink.
UrlParse(link) == IF "host" \in DOMAIN link THEN Ok(link) ELSE Err("url parse")

\* get_metadata_from_git(client, username, repository_name), which lib.rs
\* calls and the sources do not define: the manifest resolver on the GitHub
\* handle of that repository.
get_metadata_from_git(client, username, repository_name, remote) ==
    try_get_metadata(GithubRepoClient(username, repository_name), remote).ret

\* get_metadata_from_gitlab(client, repository_name), which lib.rs calls and
\* the sources do not define: the project search, then the manifest
\* resolver on the GitLab handle of the first project found.
get_metadata_from_gitlab(client, repository_name, remote) ==
    LET search_result == search_project_by_name(client, repository_name, remote.search)
    IN  IF ~IsOk(search_result) THEN search_result
        ELSE IF search_result[2] = <<>> THEN Err("Failed to find gitlab repo")
        ELSE try_get_metadata(GitlabRepoClient(search_result[2][1].id,
                                               search_result[2][1].default_branch),
                              remote).ret

\* The match on url.host_str() of get_extra_metadata: Ok(Some(metadata)),
\* Ok(None), the error that `?` or bail! returns, or a panic. `segments`,
\* which lib.rs indexes and does not define, is the URL's path segments as
\* the clients collect them, read in the arm that indexes it.
ResolveByHost(url, crates_io, github, gitlab, remote) ==
    IF url.host = Some("crates.io") /\ IsSome(crates_io)
    THEN LET crate_name == SegmentAt(url, 1)
             metadata   == get_metadata_from_crates_io_db(Unwrap(crates_io).db,
                                                          crate_name[2]).ret
         IN  IF ~IsOk(crate_name) THEN crate_name
             ELSE IF ~IsOk(metadata) THEN metadata
             ELSE Ok(Some(metadata[2]))
    ELSE IF url.host = Some("github.com")
    THEN IF IsSome(github)
         THEN LET username        == SegmentAt(url, 0)
                  repository_name == SegmentAt(url, 1)
                  metadata        == get_metadata_from_git(Unwrap(github), username[2],
                                                           repository_name[2], remote)
              IN  IF ~IsOk(username) THEN username
                  ELSE IF ~IsOk(repository_name) THEN repository_name
                  ELSE IF ~IsOk(metadata) THEN metadata
                  ELSE Ok(Some(metadata[2]))
         ELSE Ok(None)
    ELSE IF url.host = Some("gitlab.com")
    THEN IF IsSome(gitlab)
         THEN LET repository_name == SegmentAt(url, 1)
                  metadata        == get_metadata_from_gitlab(Unwrap(gitlab),
                                                              repository_name[2], remote)
              IN  IF ~IsOk(repository_name) THEN repository_name
                  ELSE IF ~IsOk(metadata) THEN metadata
                  ELSE Ok(Some(metadata[2]))
         ELSE Ok(None)
    ELSE IF url.host = None THEN Ok(None)
    ELSE Err("Unknown host")

\* get_extra_metadata: the asset as it leaves it, and what it returns.
get_extra_metadata(asset, crates_io, github, gitlab, remote) ==
    LET url      == UrlParse(asset.link)
        metadata == ResolveByHost(url[2], crates_io, github, gitlab, remote)
    IN  IF ~IsOk(url) THEN [asset |-> asset, ret |-> url]
        ELSE IF ~IsOk(metadata) THEN [asset |-> asset, ret |-> metadata]
        ELSE [asset |-> MergeMetadata(asset, metadata[2]), ret |-> Ok("unit")]

\* The asset descriptors of the walked directory.
WalkLinks ==
    {BadLink, Url(None, Some(<<FOO_BAR>>)), Url(Some("example.com"), Some(<<CRATES, FOO_BAR>>))}
        \cup {Url(Some(h), Some(p)) :
                h \in {"crates.io", "github.com", "gitlab.com"},
                p \in {<<FOO_BAR>>, <<CRATES, FOO_BAR>>}}
WalkAssets ==
    {Asset(l, d[1], d[2]) :
        l \in WalkLinks, d \in {<<None, None>>, <<Some(<<ZLIB>>), None>>}}

\* What the remote APIs answer while one asset is resolved.
WalkRemotes ==
    {[cargo_toml |-> f, license |-> [kind |-> "http_error"], search |-> q] :
        f \in {[kind |-> "http_error"], Bevy014NoLicense},
        q \in {[kind |-> "json", projects |-> <<>>],
               [kind |-> "json", projects |-> <<[id |-> 7, default_branch |-> "main"]>>]}}

\* get_extra_metadata on one asset, with the clients and the remote answers
\* the call is made with.
GetExtraMetadata ==
    /\ call.op = "get_extra_metadata" /\ ~call.done
    /\ call' = Returned(call, get_extra_metadata(call.before, call.arg.crates_io_client,
                                                 call.arg.github_client,
                                                 call.arg.gitlab_client, call.arg.remote))
    /\ Frame

InitClients ==
    /\ NoWalk
    /\ call \in
         {Pending("CratesioClient::try_get_repository_client", TheCratesioClient, u) :
             u \in Urls}
         \cup {Pending("GithubClient::try_get_repository_client", TheGithubClient, u) :
                 u \in Urls}
         \cup {Pending("GitlabClient::try_get_repository_client", TheGitlabClient,
                       [url |-> u, search |-> r]) : u \in Urls, r \in SearchReplies}
         \cup {Pending("get_extra_metadata", Asset(u, None, None),
                       [crates_io_client |-> c, github_client |-> h,
                        gitlab_client |-> l, remote |-> r]) :
                 u \in Urls,
                 c \in {None, Some(TheCratesioClient)},
                 h \in {None, Some(TheGithubClient)},
                 l \in {None, Some(TheGitlabClient)},
                 r \in WalkRemotes}

NextClients ==
    \/ CratesioTryGetRepositoryClient
    \/ GithubTryGetRepositoryClient
    \/ GitlabTryGetRepositoryClient
    \/ GetExtraMetadata

SpecClients == InitClients /\ [][NextClients]_vars

\* visit_dirs, the loop body for one asset file: the descriptor is read,
\* get_extra_metadata is applied, its error is printed and dropped, and the
\* asset is pushed. A panic unwinds out of visit_dirs and parse_assets.
\* Entries that push no asset here (skipped files, and directories, whose
\* nested section is walked by the same loop) are left out.
VisitAsset ==
    /\ walk = "walking"
    /\ Len(content) < MaxAssets
    /\ \E asset \in WalkAssets, remote \in WalkRemotes :
          LET got == get_extra_metadata(asset, crates_io_client, github_client,
                                        gitlab_client, remote)
          IN  /\ call' = Returned(Pending("get_extra_metadata", asset, remote), got)
              /\ IF IsPanic(got.ret)
                 THEN walk' = "aborted" /\ content' = content
                 ELSE walk' = "walking" /\ content' = Append(content, got.asset)
    /\ UNCHANGED <<crates_io_client, github_client, gitlab_client>>

\* visit_dirs, the end of the directory: Ok(()).
FinishWalk ==
    /\ walk = "walking"
    /\ walk' = "done"
    /\ UNCHANGED <<crates_io_client, github_client, gitlab_client, content, call>>

\* parse_assets is entered with the clients the caller could configure.
Init ==
    /\ crates_io_client \in {None, Some(TheCratesioClient)}
    /\ github_client \in {None, Some(TheGithubClient)}
    /\ gitlab_client \in {None, Some(TheGitlabClient)}
    /\ content = <<>>
    /\ walk = "walking"
    /\ call = Pending("parse_assets", None, None)

Next == VisitAsset \/ FinishWalk

Spec == Init /\ [][Next]_vars

\* ------------------------------------------------------ claims: the merge

\* C1: a declared field that is present before the merge is identical after
\* it, whatever was resolved: set_license leaves a present licenses as it
\* was, and set_bevy_version leaves a present bevy_versions as it was.
C1_DeclaredFieldsKept ==
    /\ (Did("set_license") /\ IsSome(call.before.licenses))
          => call.after.licenses = call.before.licenses
    /\ (Did("set_bevy_version") /\ IsSome(call.before.bevy_versions))
          => call.after.bevy_versions = call.before.bevy_versions

C1_Witness ==
    /\ Did("set_license")
    /\ call.before.licenses = Some(<<MIT>>)
    /\ call.arg = Some(MIT_OR_APACHE)
    /\ call.after.licenses = Some(<<MIT>>)

\* The start indices of the occurrences of " OR " that a left-to-right scan
\* of s from index `from` takes: the leftmost one, then the leftmost one
\* that starts after it has ended, and so on.
RECURSIVE SeparatorsFrom(_, _)
SeparatorsFrom(s, from) ==
    LET hits == {i \in from..Len(s) : OccursAt(s, OR_SEP, i)}
    IN  IF hits = {} THEN {}
        ELSE LET p == CHOOSE i \in hits : \A j \in hits : i <= j
             IN  {p} \cup SeparatorsFrom(s, p + Len(OR_SEP))

\* s without its leading and trailing whitespace: from its first to its last
\* character that is no whitespace.
Stripped(s) ==
    LET keep == {i \in 1..Len(s) : s[i] \notin White}
    IN  IF keep = {} THEN <<>>
        ELSE SubSeq(s, CHOOSE i \in keep : \A j \in keep : i <= j,
                       CHOOSE i \in keep : \A j \in keep : i >= j)

\* The k-th part of s (1-based) given the separators' start indices.
PartOf(s, seps, k) ==
    LET before == {p \in seps : Cardinality({q \in seps : q < p}) = k - 2}
        at     == {p \in seps : Cardinality({q \in seps : q < p}) = k - 1}
        lo     == IF before = {} THEN 1 ELSE (CHOOSE p \in before : TRUE) + Len(OR_SEP)
        hi     == IF at = {} THEN Len(s) ELSE (CHOOSE p \in at : TRUE) - 1
    IN  Stripped(SubSeq(s, lo, hi))

\* C5: with licenses absent, set_license stores the parts of the resolved
\* string between its " OR " separators, each trimmed, in order of
\* occurrence; "MIT OR Apache-2.0" gives ["MIT", "Apache-2.0"], a string
\* without " OR " gives one element, and an absent license leaves licenses
\* absent.
C5_LicenseSplit ==
    (Did("set_license") /\ call.before.licenses = None) =>
        /\ call.arg = None => call.after.licenses = None
        /\ IsSome(call.arg) =>
              LET s    == Unwrap(call.arg)
                  seps == SeparatorsFrom(s, 1)
                  n    == Cardinality(seps) + 1
              IN  /\ IsSome(call.after.licenses)
                  /\ Unwrap(call.after.licenses) = [k \in 1..n |-> PartOf(s, seps, k)]
                  /\ Find(s, OR_SEP) = 0 => Len(Unwrap(call.after.licenses)) = 1
        /\ call.arg = Some(MIT_OR_APACHE) => call.after.licenses = Some(<<MIT, APACHE>>)
        /\ call.arg = Some(MIT) => call.after.licenses = Some(<<MIT>>)
        /\ call.after.bevy_versions = call.before.bevy_versions

C5_Witness ==
    /\ Did("set_license")
    /\ call.before.licenses = None
    /\ call.arg = Some(<<" ">> \o MIT \o <<" ">> \o OR_SEP \o <<"\t">> \o ZLIB)
    /\ call.after.licenses = Some(<<MIT, ZLIB>>)

\* C12: the merge treats the two fields independently and is idempotent.
\* With licenses declared and bevy_versions absent, a resolved version is
\* stored as the one element of bevy_versions and licenses stays as it was;
\* with bevy_versions declared and licenses absent, a resolved license is
\* stored, split, in licenses and bevy_versions stays as it was. A field the
\* first merge wrote is the same after a second merge with any metadata, the
\* whole asset is the same once both fields are present, and merging the
\* same metadata twice gives what merging it once gives.
C12_IndependentIdempotent ==
    Did("merge") =>
        LET a     == call.before
            m1    == call.arg.first
            once  == call.after.once
            twice == call.after.twice
        IN  /\ (/\ IsSome(m1) /\ IsSome(a.licenses) /\ a.bevy_versions = None
                /\ IsSome(Unwrap(m1).bevy_version))
                  => /\ once.bevy_versions = Some(<<Unwrap(Unwrap(m1).bevy_version)>>)
                     /\ once.licenses = a.licenses
            /\ (/\ IsSome(m1) /\ a.licenses = None /\ IsSome(a.bevy_versions)
                /\ IsSome(Unwrap(m1).license))
                  => LET s    == Unwrap(Unwrap(m1).license)
                         seps == SeparatorsFrom(s, 1)
                     IN  /\ once.licenses =
                               Some([k \in 1..(Cardinality(seps) + 1) |-> PartOf(s, seps, k)])
                         /\ once.bevy_versions = a.bevy_versions
            /\ (a.licenses = None /\ IsSome(once.licenses))
                  => twice.licenses = once.licenses
            /\ (a.bevy_versions = None /\ IsSome(once.bevy_versions))
                  => twice.bevy_versions = once.bevy_versions
            /\ (IsSome(once.licenses) /\ IsSome(once.bevy_versions)) => twice = once
            /\ call.arg.second = m1 => twice = once
            /\ once.link = a.link /\ twice.link = a.link

C12_Witness ==
    /\ Did("merge")
    /\ call.before = Asset(NoLink, Some(<<MIT>>), None)
    /\ call.arg.first = Some(Metadata(Some(ZLIB), Some("0.14")))
    /\ call.arg.second = Some(Metadata(Some(MIT_OR_APACHE), Some("0.13")))
    /\ call.after.once = Asset(NoLink, Some(<<MIT>>), Some(<<"0.14">>))
    /\ call.after.twice = call.after.once

\* --------------------------------------------------- claims: the manifest

\* C6: get_bevy_dependency_version gives the version string of a simple
\* dependency; the explicit version of a detailed one that has it, git
\* source or not; for a detailed one with a git source and no version,
\* "main" when branch is literally "main" and "git" for any other branch
\* or none; and nothing for a detailed one with neither.
C6_DependencyVersion ==
    Did("get_bevy_dependency_version") =>
        LET dep == call.arg
            got == call.after
        IN  /\ dep.kind = "Simple" => got = Some(dep.version)
            /\ dep.kind = "Detailed" =>
                  /\ IsSome(dep.version) => got = dep.version
                  /\ (dep.version = None /\ IsSome(dep.git) /\ dep.branch = Some("main"))
                        => got = Some("main")
                  /\ (dep.version = None /\ IsSome(dep.git) /\ dep.branch # Some("main"))
                        => got = Some("git")
                  /\ (dep.version = None /\ dep.git = None) => got = None

C6_Witness ==
    /\ Did("get_bevy_dependency_version")
    /\ call.arg = Detailed(Some("0.13"), Some("https://github.com/bevyengine/bevy"),
                           Some("main"))
    /\ call.after = Some("0.13")

\* C7: get_license gives the package's license exactly when it is present,
\* whatever license_file is; "non-standard" when license is absent and
\* license_file present; nothing when both are absent or there is no
\* package section.
C7_License ==
    Did("get_license") =>
        LET package == call.arg.package
            got     == call.after
        IN  /\ package = None => got = None
            /\ IsSome(package) =>
                  /\ IsSome(Unwrap(package).license) => got = Unwrap(package).license
                  /\ (Unwrap(package).license = None
                        /\ IsSome(Unwrap(package).license_file))
                        => got = Some(NON_STANDARD)
                  /\ (Unwrap(package).license = None
                        /\ Unwrap(package).license_file = None)
                        => got = None

C7_Witness ==
    /\ Did("get_license")
    /\ call.arg.package = Some([license |-> Some(MIT), license_file |-> Some("LICENSE.txt")])
    /\ call.after = Some(MIT)

\* The rows of the [dependencies] table whose name starts with "bevy".
BevyRows(table) == {i \in 1..Len(table) : StartsWith(table[i][1], BEVY)}

\* C9 as claimed: get_bevy_version is decided by the first dependency whose
\* name starts with "bevy" in the order the dependencies appear in the
\* manifest, and is absent when there is none.
C9_FirstInManifestOrder ==
    Did("get_bevy_version") =>
        LET table == call.arg.dependencies
            rows  == BevyRows(table)
        IN  IF rows = {} THEN call.after = None
            ELSE LET first == CHOOSE i \in rows : \A j \in rows : i <= j
                 IN  call.after = get_bevy_dependency_version(table[first][2])

\* C9 as amended: get_bevy_version is decided by the dependency whose name
\* is the least, in byte-wise lexicographic order, among the names that
\* start with "bevy", wherever it stands in the manifest; no other entry is
\* consulted, and the result is absent when no name starts with "bevy".
C9_FirstInKeyOrder ==
    Did("get_bevy_version") =>
        LET table == call.arg.dependencies
            rows  == BevyRows(table)
        IN  IF rows = {} THEN call.after = None
            ELSE LET least == CHOOSE i \in rows :
                                \A j \in rows \ {i} : StrLess(table[i][1], table[j][1])
                 IN  call.after = get_bevy_dependency_version(table[least][2])

C9_Witness ==
    /\ Did("get_bevy_version")
    /\ call.arg.dependencies =
          <<  <<BEVY_ECS, Simple("0.14")>>, <<BEVY, Detailed(None, None, None)>>  >>
    /\ call.after = None

\* Whether the Cargo.toml the remote serves can be fetched and parsed.
ManifestReadable(remote) ==
    /\ remote.cargo_toml.kind = "json"
    /\ remote.cargo_toml.encoding = "base64"
    /\ remote.cargo_toml.content.kind = "text"
    /\ remote.cargo_toml.content.text.kind = "manifest"

\* C10: try_get_metadata of a GitHub or GitLab handle asks the handle for
\* the file "Cargo.toml" and for nothing else, never for the license, so it
\* succeeds whenever the manifest can be fetched and parsed, whatever the
\* license endpoint would answer; with a GitLab handle and a manifest that
\* declares bevy = "0.14" and no license it resolves version "0.14" and no
\* license.
C10_ManifestOnly ==
    Did("try_get_metadata") =>
        /\ call.after.calls = <<FileCall("Cargo.toml")>>
        /\ ManifestReadable(call.arg) <=> IsOk(call.after.ret)
        /\ (call.before.kind = "gitlab" /\ call.arg.cargo_toml = Bevy014NoLicense)
              => call.after.ret = Ok(Metadata(None, Some("0.14")))

C10_Witness ==
    /\ Did("try_get_metadata")
    /\ call.before.kind = "gitlab"
    /\ call.arg.cargo_toml = Bevy014NoLicense
    /\ call.arg.license.kind = "http_error"
    /\ call.after.ret = Ok(Metadata(None, Some("0.14")))

\* --------------------------------------------------- claims: the registry

\* Whether the dump has a usable row for the name: the query succeeds and
\* its first row can be read.
Resolves(db, name) ==
    /\ name \in DOMAIN db
    /\ IsOk(db[name]) /\ db[name][2] # <<>> /\ IsOk(db[name][2][1])

\* The metadata of the name's first row: its license, and the version of
\* its first bevy dependency if it has one.
RowMetadata(db, name) ==
    LET row == db[name][2][1][2]
    IN  Metadata(Some(row.license),
                 IF IsOk(row.deps) /\ Len(row.deps[2]) >= 1
                 THEN Some(row.deps[2][1][1]) ELSE None)

\* C8: the registry lookup tries the literal name first and, only when that
\* finds no usable row, retries exactly once with every underscore replaced
\* by a hyphen; a name that resolves literally gives the literal row, one
\* that resolves only hyphenated gives the hyphenated row, and the lookup
\* fails exactly when neither resolves.
C8_HyphenFallback ==
    Did("get_metadata_from_crates_io_db") =>
        LET db   == call.before
            name == call.arg
            hyph == [i \in 1..Len(name) |-> IF name[i] = "_" THEN "-" ELSE name[i]]
            got  == call.after
        IN  /\ Resolves(db, name) =>
                  /\ got.ret = Ok(RowMetadata(db, name))
                  /\ got.lookups = <<name>>
            /\ ~Resolves(db, name) => got.lookups = <<name, hyph>>
            /\ (~Resolves(db, name) /\ Resolves(db, hyph)) =>
                  got.ret = Ok(RowMetadata(db, hyph))
            /\ IsErr(got.ret) <=> (~Resolves(db, name) /\ ~Resolves(db, hyph))
            /\ ~IsPanic(got.ret)

C8_Witness ==
    /\ Did("get_metadata_from_crates_io_db")
    /\ call.arg = FOO_BAR
    /\ call.before[FOO_BAR] = Ok(<<>>)
    /\ call.before[FOO_DASH_BAR] =
          Ok(<<Ok(Row(MIT_OR_APACHE, Ok(<<  <<"0.14", "normal">>, <<"0.13", "dev">>  >>)))>>)
    /\ call.after.lookups = <<FOO_BAR, FOO_DASH_BAR>>
    /\ call.after.ret = Ok(Metadata(Some(MIT_OR_APACHE), Some("0.14")))

\* ----------------------------------------- claims: handle construction

ConstructsHandle ==
    /\ call.done
    /\ call.op \in {"CratesioClient::try_get_repository_client",
                    "GithubClient::try_get_repository_client",
                    "GitlabClient::try_get_repository_client"}

\* C4: handle construction for a link whose host is the client's ends with
\* a handle or with an error value, whatever the number of path segments;
\* it never aborts the catalog build.
C4_NoAbort ==
    ConstructsHandle => (IsOk(call.after) \/ IsErr(call.after))

\* The URL a handle construction was called with.
UrlOf(c) ==
    IF c.op = "GitlabClient::try_get_repository_client" THEN c.arg.url ELSE c.arg

\* The single fixed host of the client a handle construction belongs to.
FixedHost(op) ==
    IF op = "CratesioClient::try_get_repository_client" THEN "crates.io"
    ELSE IF op = "GithubClient::try_get_repository_client" THEN "github.com"
    ELSE "gitlab.com"

\* The backends whose handle construction can return a handle for the URL,
\* whatever the GitLab project search answers.
BackendsAccepting(url) ==
    {b \in {"crates.io", "github.com", "gitlab.com"} :
        \/ b = "crates.io"
              /\ IsOk(CratesioClient_try_get_repository_client(TheCratesioClient, url))
        \/ b = "github.com"
              /\ IsOk(GithubClient_try_get_repository_client(TheGithubClient, url))
        \/ b = "gitlab.com"
              /\ \E r \in SearchReplies :
                    IsOk(GitlabClient_try_get_repository_client(TheGitlabClient, url, r))}

\* C11: each of the three try_get_repository_client returns an error value
\* when the URL has no host or a host other than the client's own fixed
\* host, so that at most one of them can return a handle for a URL; and
\* get_extra_metadata on a link whose host is none of crates.io, github.com
\* and gitlab.com fails with "Unknown host" and leaves the asset as it was.
C11_DisjointHosts ==
    /\ ConstructsHandle =>
          /\ UrlOf(call).host # Some(FixedHost(call.op)) => IsErr(call.after)
          /\ IsOk(call.after) => BackendsAccepting(UrlOf(call)) = {FixedHost(call.op)}
          /\ Cardinality(BackendsAccepting(UrlOf(call))) <= 1
    /\ (/\ Did("get_extra_metadata")
        /\ IsSome(call.before.link.host)
        /\ Unwrap(call.before.link.host) \notin {"crates.io", "github.com", "gitlab.com"})
          => /\ call.after.ret = Err("Unknown host")
             /\ call.after.asset = call.before

C11_Witness ==
    /\ Did("GithubClient::try_get_repository_client")
    /\ call.arg = Url(Some("gitlab.com"), Some(<<FOO_BAR, CRATES>>))
    /\ call.after = Err("Not a GitHub repository")
    /\ BackendsAccepting(call.arg) = {"gitlab.com"}

\* ------------------------------------------------------ claims: the walk

\* The client the link's host belongs to, when the host is a recognised one.
ClientFor(host) ==
    IF host = "crates.io" THEN crates_io_client
    ELSE IF host = "github.com" THEN github_client
    ELSE gitlab_client

\* C2: when the link's host is one of crates.io, github.com, gitlab.com and
\* that host's client is not configured, get_extra_metadata returns Ok,
\* reports no error, and leaves the asset as it was.
C2_UnconfiguredSkips ==
    (/\ Did("get_extra_metadata")
     /\ IsOk(UrlParse(call.before.link))
     /\ IsSome(call.before.link.host)
     /\ Unwrap(call.before.link.host) \in {"crates.io", "github.com", "gitlab.com"}
     /\ ClientFor(Unwrap(call.before.link.host)) = None)
        => /\ IsOk(call.after.ret)
           /\ call.after.asset = call.before

\* C3: a resolution failure of one asset is caught at the per-asset
\* boundary: the asset is pushed with licenses and bevy_versions as they
\* were, and the walk goes on to the later assets.
C3_FailureCaught ==
    (Did("get_extra_metadata") /\ ~IsOk(call.after.ret))
        => /\ walk # "aborted"
           /\ content # <<>>
           /\ content[Len(content)] = call.before

\* A failure that is an error value is caught: the asset is pushed as it was
\* and the walk goes on.
ErrorValueCaught ==
    (Did("get_extra_metadata") /\ IsErr(call.after.ret))
        => /\ walk # "aborted"
           /\ content # <<>>
           /\ content[Len(content)] = call.before

====
